---- MODULE Spec2Model ----
(***************************************************************************)
(* FolderContentsLogger.py: one run writes a snapshot of the configured    *)
(* paths into logs/<MonthName>_<Year>/<timestamp>.txt and then removes     *)
(* the monthly folders that are MONTHS_TO_KEEP or more months old.         *)
(*                                                                         *)
(* Text is modelled as a sequence of one-character strings, so that        *)
(* str.split, int(), strftime and strptime are computed character by       *)
(* character.                                                              *)
(***************************************************************************)
EXTENDS Integers, Sequences, FiniteSets, TLC

\* ------------------------------------------------------------------------
\* Bounds of the model
\* ------------------------------------------------------------------------
MaxRuns == 2          \* runs of main() in one behaviour
MaxMonth == 3         \* months the clock may advance past StartClock
MaxSec == 1           \* seconds the clock may advance inside one month
MaxRunRollover == 1   \* month boundaries crossed while one run is active
RTYears == 9          \* years past StartClock.year tried by the round trip

\* ------------------------------------------------------------------------
\* Configuration (section 1 of the source)
\* ------------------------------------------------------------------------
MONTHS_TO_KEEP == 3

BASE_LOG_FOLDER == "logs"

\* The clock reading of the first state: December 2024, first second.
StartClock == [year |-> 2024, month |-> 12, sec |-> 0]

\* ------------------------------------------------------------------------
\* Text
\* ------------------------------------------------------------------------
DigitChars == <<"0", "1", "2", "3", "4", "5", "6", "7", "8", "9">>

IsDigit(c) == \E i \in 1..10 : DigitChars[i] = c

DigitVal(c) == (CHOOSE i \in 1..10 : DigitChars[i] = c) - 1

UpperToLower ==
    [A |-> "a", B |-> "b", C |-> "c", D |-> "d", E |-> "e", F |-> "f",
     G |-> "g", H |-> "h", I |-> "i", J |-> "j", K |-> "k", L |-> "l",
     M |-> "m", N |-> "n", O |-> "o", P |-> "p", Q |-> "q", R |-> "r",
     S |-> "s", T |-> "t", U |-> "u", V |-> "v", W |-> "w", X |-> "x",
     Y |-> "y", Z |-> "z"]

Lower(c) == IF c \in DOMAIN UpperToLower THEN UpperToLower[c] ELSE c

LowerStr(s) == [i \in 1..Len(s) |-> Lower(s[i])]

\* Decimal digits of n >= 0, no padding.
RECURSIVE Dec(_)
Dec(n) == IF n < 10 THEN <<DigitChars[n + 1]>>
          ELSE Dec(n \div 10) \o <<DigitChars[(n % 10) + 1]>>

\* Two decimal digits, zero padded (%m, %d, %H, %M, %S).
Pad2(n) == IF n < 10 THEN <<"0">> \o Dec(n) ELSE Dec(n)

\* calendar month names of the C / English locale, used by %B.
MonthNames ==
    << <<"J","a","n","u","a","r","y">>,
       <<"F","e","b","r","u","a","r","y">>,
       <<"M","a","r","c","h">>,
       <<"A","p","r","i","l">>,
       <<"M","a","y">>,
       <<"J","u","n","e">>,
       <<"J","u","l","y">>,
       <<"A","u","g","u","s","t">>,
       <<"S","e","p","t","e","m","b","e","r">>,
       <<"O","c","t","o","b","e","r">>,
       <<"N","o","v","e","m","b","e","r">>,
       <<"D","e","c","e","m","b","e","r">> >>

\* now.strftime("%B")
StrftimeB(now) == MonthNames[now.month]

\* now.strftime("%Y")
StrftimeY(now) == Dec(now.year)

\* MonthFolderName with a fault: "%b" (abbreviated month) instead of "%B".
MonthFolderNameAbbrev(now) ==
    SubSeq(MonthNames[now.month], 1, 3) \o <<"_">> \o StrftimeY(now)

\* f"{month_name}_{year}"
MonthFolderName(now) == StrftimeB(now) \o <<"_">> \o StrftimeY(now)

\* os.path.join(BASE_LOG_FOLDER, month_folder_name)
MonthFolderPath(name) == <<BASE_LOG_FOLDER, name>>

\* str.split(sep): the pieces between the occurrences of sep.
RECURSIVE Split(_, _)
Split(s, sep) ==
    IF \A i \in 1..Len(s) : s[i] # sep
    THEN <<s>>
    ELSE LET k == CHOOSE i \in 1..Len(s) :
                    s[i] = sep /\ \A j \in 1..(i - 1) : s[j] # sep
         IN  <<SubSeq(s, 1, k - 1)>> \o Split(SubSeq(s, k + 1, Len(s)), sep)

\* int() ignores blanks around the literal.
RECURSIVE Strip(_)
Strip(s) ==
    IF s # <<>> /\ Head(s) = " " THEN Strip(Tail(s))
    ELSE IF s # <<>> /\ s[Len(s)] = " " THEN Strip(SubSeq(s, 1, Len(s) - 1))
    ELSE s

Unsigned(s) ==
    LET t == Strip(s)
    IN  IF t # <<>> /\ Head(t) \in {"+", "-"} THEN Tail(t) ELSE t

\* int(year_str) does not raise ValueError: an optional sign and digits.
IntOk(s) ==
    LET u == Unsigned(s)
    IN  u # <<>> /\ \A i \in 1..Len(u) : IsDigit(u[i])

RECURSIVE DigitsVal(_)
DigitsVal(u) ==
    IF u = <<>> THEN 0
    ELSE 10 * DigitsVal(SubSeq(u, 1, Len(u) - 1)) + DigitVal(u[Len(u)])

\* The value of int(year_str), where IntOk(s).
IntVal(s) ==
    LET t == Strip(s)
    IN  IF Head(t) = "-" THEN 0 - DigitsVal(Unsigned(s)) ELSE DigitsVal(Unsigned(s))

\* StrptimeB with a fault: it accepts the three-letter abbreviation too ("%b").
StrptimeAbbrev(s) ==
    LET hits == {m \in 1..12 :
                    \/ LowerStr(MonthNames[m]) = LowerStr(s)
                    \/ LowerStr(SubSeq(MonthNames[m], 1, 3)) = LowerStr(s)}
    IN  IF hits = {} THEN 0 ELSE CHOOSE m \in hits : TRUE

\* datetime.strptime(month_str, "%B").month, 0 standing for ValueError. The
\* match is against the whole string and ignores case.
StrptimeB(s) ==
    LET hits == {m \in 1..12 : LowerStr(MonthNames[m]) = LowerStr(s)}
    IN  IF hits = {} THEN 0 ELSE CHOOSE m \in hits : TRUE

\* datetime.datetime(year, month, 1) does not raise ValueError.
DatetimeOk(year, month) == year \in 1..9999 /\ month \in 1..12

ParseFailed == [ok |-> FALSE, year |-> 0, month |-> 0]

\* The try block of delete_old_monthly_folders up to folder_date: ok is
\* FALSE where the code raises ValueError.
ParseFolderName(folder_name) ==
    LET parts == Split(folder_name, "_")
    IN  IF Len(parts) # 2 THEN ParseFailed
        ELSE IF ~IntOk(parts[2]) THEN ParseFailed
        ELSE IF StrptimeB(parts[1]) = 0 THEN ParseFailed
        ELSE IF ~DatetimeOk(IntVal(parts[2]), StrptimeB(parts[1])) THEN ParseFailed
        ELSE [ok |-> TRUE, year |-> IntVal(parts[2]), month |-> StrptimeB(parts[1])]

\* MonthDiff with a fault: the months subtracted the other way round.
MonthDiffSwapped(now, folder_date) ==
    (now.year - folder_date.year) * 12 + (folder_date.month - now.month)

\* diff = (now.year - folder_date.year) * 12 + (now.month - folder_date.month)
MonthDiff(now, folder_date) ==
    (now.year - folder_date.year) * 12 + (now.month - folder_date.month)

\* IsOld with a fault: ">" instead of ">=".
IsOldStrict(diff) == diff > MONTHS_TO_KEEP

\* if diff >= MONTHS_TO_KEEP
IsOld(diff) == diff >= MONTHS_TO_KEEP

\* ------------------------------------------------------------------------
\* The clock, the file names and the configured paths
\* ------------------------------------------------------------------------
MonthsElapsed(c) ==
    (c.year - StartClock.year) * 12 + (c.month - StartClock.month)

NextMonth(c) ==
    IF c.month = 12 THEN [year |-> c.year + 1, month |-> 1, sec |-> 0]
    ELSE [year |-> c.year, month |-> c.month + 1, sec |-> 0]

\* now.strftime("%Y-%m-%d_%H-%M-%S"); the modelled clock stays on the first
\* day, hour and minute of its month.
StrftimeStamp(now) ==
    Dec(now.year) \o <<"-">> \o Pad2(now.month) \o <<"-">> \o Pad2(1) \o <<"_">>
        \o Pad2(0) \o <<"-">> \o Pad2(0) \o <<"-">> \o Pad2(now.sec)

\* f"{timestamp_str}.txt"
DailyLogFilename(now) == StrftimeStamp(now) \o <<".", "t", "x", "t">>

\* now.strftime("%Y-%m-%d %H:%M:%S")
StrftimeNow(now) ==
    Dec(now.year) \o <<"-">> \o Pad2(now.month) \o <<"-">> \o Pad2(1) \o <<" ">>
        \o Pad2(0) \o <<":">> \o Pad2(0) \o <<":">> \o Pad2(now.sec)

\* read_paths_with_messages(DIRECTORIES_FILE): the (path, message) pairs of
\* a directories.txt with the one line "p1|nightly backup".
PathMessageList == << [path |-> "p1", msg |-> "nightly backup"] >>

ConfiguredPaths == {PathMessageList[i].path : i \in 1..Len(PathMessageList)}

\* What a configured path is on disk, in every run of one behaviour.
PathKinds == {"full", "absent", "denied", "notdir"}

\* os.listdir(path) with the kind of each entry, or the exception it raises.
OsListdir(kind) ==
    CASE kind = "full"   -> [exc |-> "", entries |-> << [name |-> "a", isdir |-> TRUE],
                                                       [name |-> "b", isdir |-> TRUE],
                                                       [name |-> "f.txt", isdir |-> FALSE] >>]
      [] kind = "absent" -> [exc |-> "FileNotFoundError", entries |-> <<>>]
      [] kind = "denied" -> [exc |-> "PermissionError", entries |-> <<>>]
      [] kind = "notdir" -> [exc |-> "NotADirectoryError", entries |-> <<>>]

EntryName(e) == e.name
IsDirEntry(e) == e.isdir
IsFileEntry(e) == ~e.isdir

Names(entries) == [i \in 1..Len(entries) |-> EntryName(entries[i])]

\* except FileNotFoundError
Caught(exc) == exc = "FileNotFoundError"

\* get_subdirectories(path): the names, or the exception that propagates.
GetSubdirectories(kind) ==
    LET r == OsListdir(kind)
    IN  IF r.exc = "" THEN [exc |-> "", val |-> Names(SelectSeq(r.entries, IsDirEntry))]
        ELSE IF Caught(r.exc) THEN [exc |-> "", val |-> <<>>]
        ELSE [exc |-> r.exc, val |-> <<>>]

\* get_files_in_directory(path)
GetFilesInDirectory(kind) ==
    LET r == OsListdir(kind)
    IN  IF r.exc = "" THEN [exc |-> "", val |-> Names(SelectSeq(r.entries, IsFileEntry))]
        ELSE IF Caught(r.exc) THEN [exc |-> "", val |-> <<>>]
        ELSE [exc |-> r.exc, val |-> <<>>]

\* Folder names found under logs/ before the first run.
FolderName(m, ys) == MonthNames[m] \o <<"_">> \o ys

December_2024 == FolderName(12, Dec(2024))
January_2025 == FolderName(1, Dec(2025))
December_2025 == FolderName(12, Dec(2025))
october_2024 == LowerStr(FolderName(10, Dec(2024)))
March_0 == FolderName(3, <<"0">>)
March_blank_2024 == FolderName(3, <<" ">> \o Dec(2024))
notamonth_name == <<"n","o","t","a","m","o","n","t","h","_","n","a","m","e">>
March_25AB == FolderName(3, <<"2","5","A","B">>)
Mar_2024 == SubSeq(MonthNames[3], 1, 3) \o <<"_">> \o Dec(2024)
March_2024_old == FolderName(3, Dec(2024)) \o <<"_","o","l","d">>
March2024 == MonthNames[3] \o Dec(2024)
November_2023 == FolderName(11, Dec(2023))

\* What logs/ holds before the first run: nothing, folders of earlier runs,
\* folders whose names int() and strptime accept in another spelling, and
\* folders and a regular file put there by hand.
InitDirSets ==
    { {},
      {December_2024, January_2025, December_2025},
      {october_2024, March_blank_2024, March_0},
      {notamonth_name, March_25AB, Mar_2024, March_2024_old, March2024} }

InitNames == UNION InitDirSets

\* Every clock reading of the model, and every name an entry of logs/ can have.
AllClocks ==
    {[year |-> StartClock.year + y, month |-> m, sec |-> 0] :
        y \in 0..((MaxMonth \div 12) + 1), m \in 1..12}

KnownNames == InitNames \cup {November_2023} \cup {MonthFolderName(c) : c \in AllClocks}

\* ParseFolderName of each known name, computed once.
ParseTable == [n \in KnownNames |-> ParseFolderName(n)]

\* ------------------------------------------------------------------------
\* State
\* ------------------------------------------------------------------------
VARIABLES
    clock,            \* what datetime.datetime.now() returns
    pathKind,         \* what each configured path is on disk
    rootExists,       \* os.path.exists(BASE_LOG_FOLDER)
    dirs,             \* names of the directories directly under logs/
    plainFiles,       \* names of the regular files directly under logs/
    snapshots,        \* path of each snapshot file |-> its content and writer
    pc,               \* position of the run in main()
    run,              \* number of runs started
    rolled,           \* month boundaries crossed since the run's first clock read
    monthly_folder,   \* main: monthly_folder
    daily_log_path,   \* main: daily_log_path
    lines_to_write,   \* main: lines_to_write
    idx,              \* main: position of the for loop in path_message_list
    cnow,             \* delete_old_monthly_folders: now
    listed,           \* delete_old_monthly_folders: os.listdir(BASE_LOG_FOLDER)
    todo,             \* entries of listed the for loop has not reached
    attempted,        \* folders the current run has called shutil.rmtree on
    raisedIn,         \* the call whose exception ended the run, or ""
    events,           \* calls made by the current run, in order, and what the
                      \* listed path was
    lastCreate,       \* last successful create_monthly_folder: its bucket and result
    mkdirs,           \* folder names os.makedirs has created, one entry per call
    probe             \* input and outputs of the naming round trip

fsVars == <<rootExists, dirs, plainFiles, snapshots>>
mainLocals == <<monthly_folder, daily_log_path, lines_to_write, idx>>
cleanupLocals == <<cnow, listed, todo, attempted>>
ghostVars == <<lastCreate, mkdirs>>
vars == <<clock, pathKind, fsVars, pc, run, rolled, mainLocals, cleanupLocals, raisedIn,
          events, ghostVars, probe>>

NoClock == [year |-> 0, month |-> 0, sec |-> 0]
NoProbe == [stage |-> "none"]
NoCreate == [ok |-> FALSE]
NoLines == [generated |-> <<>>, sections |-> <<>>]

Ended == pc \in {"idle", "done", "raised"}

Init ==
    /\ clock = StartClock
    /\ pathKind \in [ConfiguredPaths -> PathKinds]
    /\ \E ds \in InitDirSets :
          /\ dirs = ds
          /\ plainFiles = (IF March2024 \in ds THEN {November_2023} ELSE {})
          /\ rootExists = (ds # {})
    /\ snapshots = <<>>
    /\ pc = "idle"
    /\ run = 0
    /\ rolled = 0
    /\ monthly_folder = <<>>
    /\ daily_log_path = <<>>
    /\ lines_to_write = NoLines
    /\ idx = 0
    /\ cnow = NoClock
    /\ listed = {}
    /\ todo = {}
    /\ attempted = {}
    /\ raisedIn = ""
    /\ events = <<>>
    /\ lastCreate = NoCreate
    /\ mkdirs = <<>>
    /\ probe = NoProbe

\* ------------------------------------------------------------------------
\* The clock
\* ------------------------------------------------------------------------
\* The clock is read at the start of create_monthly_folder, twice in main
\* and at the start of delete_old_monthly_folders. The time that passes
\* between two runs passes before the first read of the later run; a month
\* boundary crossed while a run is active is placed before the read of
\* delete_old_monthly_folders, the one read that is compared with the first.
BeforeRead == pc = "cleanup"
BeforeRun == pc = "create"
BetweenRuns == Ended /\ run < MaxRuns

Tick ==
    /\ BeforeRun
    /\ clock.sec < MaxSec
    /\ clock' = [clock EXCEPT !.sec = @ + 1]
    /\ UNCHANGED <<pathKind, fsVars, pc, run, rolled, mainLocals, cleanupLocals, raisedIn,
                   events, ghostVars, probe>>

Rollover ==
    /\ MonthsElapsed(clock) < MaxMonth
    /\ \/ BeforeRun /\ rolled' = rolled
       \/ BeforeRead /\ rolled < MaxRunRollover /\ rolled' = rolled + 1
    /\ clock' = NextMonth(clock)
    /\ UNCHANGED <<pathKind, fsVars, pc, run, mainLocals, cleanupLocals, raisedIn,
                   events, ghostVars, probe>>

\* ------------------------------------------------------------------------
\* main()
\* ------------------------------------------------------------------------
Put(f, k, v) == [x \in DOMAIN f \cup {k} |-> IF x = k THEN v ELSE f[x]]
Restrict(f, S) == [x \in S |-> f[x]]
Event(op, arg) == [op |-> op, arg |-> arg]

\* The external scheduler starts the next run.
StartRun ==
    /\ BetweenRuns
    /\ pc' = "create"
    /\ run' = run + 1
    /\ rolled' = 0
    /\ monthly_folder' = <<>>
    /\ daily_log_path' = <<>>
    /\ lines_to_write' = NoLines
    /\ idx' = 0
    /\ cnow' = NoClock
    /\ listed' = {}
    /\ todo' = {}
    /\ attempted' = {}
    /\ raisedIn' = ""
    /\ events' = <<>>
    /\ UNCHANGED <<clock, pathKind, fsVars, ghostVars, probe>>

\* os.path.exists(month_folder_path)
PathExists(name) == name \in dirs \cup plainFiles

\* NeedsMakedirs with a fault: os.makedirs is called without the test.
NeedsMakedirsAlways(exists) == TRUE

\* if not os.path.exists(month_folder_path)
NeedsMakedirs(exists) == ~exists

\* create_monthly_folder() returns; os.makedirs, where it is called, creates
\* the folder and the missing logs/ above it.
CreateMonthlyFolder ==
    /\ pc = "create"
    /\ LET name == MonthFolderName(clock)
       IN  /\ IF NeedsMakedirs(PathExists(name))
              THEN /\ ~PathExists(name)
                   /\ dirs' = dirs \cup {name}
                   /\ rootExists' = TRUE
                   /\ mkdirs' = Append(mkdirs, name)
              ELSE UNCHANGED <<dirs, rootExists, mkdirs>>
           /\ monthly_folder' = MonthFolderPath(name)
           /\ lastCreate' = [ok |-> TRUE, year |-> clock.year, month |-> clock.month,
                             path |-> MonthFolderPath(name)]
           /\ events' = Append(events, Event("create_monthly_folder", <<>>))
    /\ pc' = "stamp"
    /\ UNCHANGED <<clock, pathKind, plainFiles, snapshots, run, rolled, daily_log_path,
                   lines_to_write, idx, cleanupLocals, raisedIn, probe>>

\* os.makedirs raises OSError (FileExistsError where the path exists, a
\* permission or disk error otherwise) and main() ends with it.
CreateMonthlyFolderRaises ==
    /\ pc = "create"
    /\ NeedsMakedirs(PathExists(MonthFolderName(clock)))
    /\ pc' = "raised"
    /\ raisedIn' = "makedirs"
    /\ events' = Append(events, Event("makedirs", <<>>))
    /\ UNCHANGED <<clock, pathKind, fsVars, run, rolled, mainLocals, cleanupLocals,
                   ghostVars, probe>>

\* 3.2: daily_log_path from a second reading of the clock.
BuildFilename ==
    /\ pc = "stamp"
    /\ daily_log_path' = Append(monthly_folder, DailyLogFilename(clock))
    /\ pc' = "gen"
    /\ UNCHANGED <<clock, pathKind, fsVars, run, rolled, monthly_folder, lines_to_write, idx,
                   cleanupLocals, raisedIn, events, ghostVars, probe>>

\* 3.3 and the head of 3.4: the configuration is read, the first line is
\* built from a third reading of the clock.
StartLog ==
    /\ pc = "gen"
    /\ lines_to_write' = [generated |-> StrftimeNow(clock), sections |-> <<>>]
    /\ idx' = 1
    /\ pc' = "list"
    /\ UNCHANGED <<clock, pathKind, fsVars, run, rolled, monthly_folder, daily_log_path,
                   cleanupLocals, raisedIn, events, ghostVars, probe>>

\* One turn of the for loop over path_message_list, both listings returning.
ListPath ==
    /\ pc = "list"
    /\ idx <= Len(PathMessageList)
    /\ LET e == PathMessageList[idx]
           sd == GetSubdirectories(pathKind[e.path])
           fl == GetFilesInDirectory(pathKind[e.path])
       IN  /\ sd.exc = ""
           /\ fl.exc = ""
           /\ lines_to_write' =
                 [lines_to_write EXCEPT !.sections =
                     Append(@, [path |-> e.path, msg |-> e.msg,
                                subdirs |-> sd.val, files |-> fl.val])]
           /\ events' = Append(events, Event("list", <<e.path, pathKind[e.path]>>))
    /\ idx' = idx + 1
    /\ UNCHANGED <<clock, pathKind, fsVars, pc, run, rolled, monthly_folder, daily_log_path,
                   cleanupLocals, raisedIn, ghostVars, probe>>

\* One turn of the for loop where os.listdir raises an exception that
\* get_subdirectories does not catch: main() ends with it.
ListPathRaises ==
    /\ pc = "list"
    /\ idx <= Len(PathMessageList)
    /\ LET e == PathMessageList[idx]
       IN  /\ GetSubdirectories(pathKind[e.path]).exc # ""
           /\ events' = Append(events, Event("list", <<e.path, pathKind[e.path]>>))
    /\ pc' = "raised"
    /\ raisedIn' = "listdir"
    /\ UNCHANGED <<clock, pathKind, fsVars, run, rolled, mainLocals, cleanupLocals,
                   ghostVars, probe>>

\* 3.5: open(daily_log_path, 'w') creates or truncates the file and the
\* document is written.
WriteLog ==
    /\ pc = "list"
    /\ idx > Len(PathMessageList)
    /\ monthly_folder[2] \in dirs
    /\ snapshots' = Put(snapshots, daily_log_path,
                        [content |-> lines_to_write, writer |-> run])
    /\ events' = Append(events, Event("open", <<>>))
    /\ pc' = "cleanup"
    /\ UNCHANGED <<clock, pathKind, rootExists, dirs, plainFiles, run, rolled, mainLocals,
                   cleanupLocals, raisedIn, ghostVars, probe>>

\* 3.5 fails: open raises OSError and the disk is as before, or write raises
\* it and leaves the file created or truncated. main() ends with it.
WriteLogRaises ==
    /\ pc = "list"
    /\ idx > Len(PathMessageList)
    /\ \/ /\ raisedIn' = "open"
          /\ UNCHANGED snapshots
       \/ /\ monthly_folder[2] \in dirs
          /\ raisedIn' = "write"
          /\ snapshots' = Put(snapshots, daily_log_path,
                              [content |-> NoLines, writer |-> run])
    /\ events' = Append(events, Event("open", <<>>))
    /\ pc' = "raised"
    /\ UNCHANGED <<clock, pathKind, rootExists, dirs, plainFiles, run, rolled, mainLocals,
                   cleanupLocals, ghostVars, probe>>

\* ------------------------------------------------------------------------
\* delete_old_monthly_folders()
\* ------------------------------------------------------------------------
\* The try block: the name parses and diff >= MONTHS_TO_KEEP.
ShouldDelete(folder_name, now) ==
    LET folder_date == IF folder_name \in KnownNames THEN ParseTable[folder_name]
                       ELSE ParseFolderName(folder_name)
    IN  folder_date.ok /\ IsOld(MonthDiff(now, folder_date))

\* os.path.isdir(folder_path)
IsDir(folder_name) == folder_name \in dirs

FilesIn(folder_name) == {p \in DOMAIN snapshots : p[2] = folder_name}

\* 3.6: the clock is read, logs/ is tested and listed.
CleanupStart ==
    /\ pc = "cleanup"
    /\ cnow' = clock
    /\ IF rootExists
       THEN /\ listed' = dirs \cup plainFiles
            /\ todo' = dirs \cup plainFiles
            /\ pc' = "cleanup_loop"
       ELSE /\ listed' = {}
            /\ todo' = {}
            /\ pc' = "done"
    /\ events' = Append(events, Event("delete_old_monthly_folders", <<>>))
    /\ UNCHANGED <<clock, pathKind, fsVars, run, rolled, mainLocals, attempted, raisedIn,
                   ghostVars, probe>>

\* One turn of the for loop that deletes nothing: the entry is no directory,
\* its name raises ValueError, or it is younger than MONTHS_TO_KEEP months.
\* os.listdir returns the entries in arbitrary order. A turn that skips its
\* entry changes nothing but the position of the loop and commutes with
\* every other turn: the skipping turns are taken first, in one fixed order,
\* and the removing turns in every order.
Skipped == {f \in todo : ~(IsDir(f) /\ ShouldDelete(f, cnow))}

CleanupSkip ==
    /\ pc = "cleanup_loop"
    /\ Skipped # {}
    /\ todo' = todo \ {CHOOSE f \in Skipped : TRUE}
    /\ UNCHANGED <<clock, pathKind, fsVars, pc, run, rolled, mainLocals, cnow, listed,
                   attempted, raisedIn, events, ghostVars, probe>>

\* One turn of the for loop where shutil.rmtree removes the folder.
CleanupRmtree ==
    /\ pc = "cleanup_loop"
    /\ Skipped = {}
    /\ \E folder_name \in todo :
          /\ IsDir(folder_name)
          /\ ShouldDelete(folder_name, cnow)
          /\ dirs' = dirs \ {folder_name}
          /\ snapshots' = Restrict(snapshots, DOMAIN snapshots \ FilesIn(folder_name))
          /\ attempted' = attempted \cup {folder_name}
          /\ todo' = todo \ {folder_name}
    /\ events' = Append(events, Event("rmtree", <<>>))
    /\ UNCHANGED <<clock, pathKind, rootExists, plainFiles, pc, run, rolled, mainLocals,
                   cnow, listed, raisedIn, ghostVars, probe>>

\* One turn of the for loop where shutil.rmtree raises OSError, having
\* removed some of the folder's files: the except clause names ValueError
\* only, so the loop and main() end with the exception.
CleanupRmtreeRaises ==
    /\ pc = "cleanup_loop"
    /\ Skipped = {}
    /\ \E folder_name \in todo :
          /\ IsDir(folder_name)
          /\ ShouldDelete(folder_name, cnow)
          /\ \E gone \in SUBSET FilesIn(folder_name) :
                snapshots' = Restrict(snapshots, DOMAIN snapshots \ gone)
          /\ attempted' = attempted \cup {folder_name}
    /\ events' = Append(events, Event("rmtree", <<>>))
    /\ pc' = "raised"
    /\ raisedIn' = "rmtree"
    /\ UNCHANGED <<clock, pathKind, rootExists, dirs, plainFiles, run, rolled, mainLocals,
                   cnow, listed, todo, ghostVars, probe>>

\* The for loop is over; delete_old_monthly_folders and main() return.
CleanupReturn ==
    /\ pc = "cleanup_loop"
    /\ todo = {}
    /\ pc' = "done"
    /\ UNCHANGED <<clock, pathKind, fsVars, run, rolled, mainLocals, cleanupLocals, raisedIn,
                   events, ghostVars, probe>>

Next ==
    \/ Tick
    \/ Rollover
    \/ StartRun
    \/ CreateMonthlyFolder
    \/ CreateMonthlyFolderRaises
    \/ BuildFilename
    \/ StartLog
    \/ ListPath
    \/ ListPathRaises
    \/ WriteLog
    \/ WriteLogRaises
    \/ CleanupStart
    \/ CleanupSkip
    \/ CleanupRmtree
    \/ CleanupRmtreeRaises
    \/ CleanupReturn

Spec == Init /\ [][Next]_vars

\* ------------------------------------------------------------------------
\* The folder name and its parse as pure functions: a clock reading is named
\* as create_monthly_folder names it, and the name is parsed as
\* delete_old_monthly_folders parses it.
\* ------------------------------------------------------------------------
RoundTripYears ==
    {1, 999, 9999} \cup {StartClock.year + i : i \in 0..RTYears}

InitRoundTrip ==
    /\ \E y \in RoundTripYears, m \in 1..12 :
          probe = [stage |-> "in", now |-> [year |-> y, month |-> m, sec |-> 0],
                   name |-> <<>>, parsed |-> ParseFailed]
    /\ clock = StartClock
    /\ pathKind = [q \in ConfiguredPaths |-> "absent"]
    /\ rootExists = FALSE
    /\ dirs = {}
    /\ plainFiles = {}
    /\ snapshots = <<>>
    /\ pc = "idle"
    /\ run = 0
    /\ rolled = 0
    /\ monthly_folder = <<>>
    /\ daily_log_path = <<>>
    /\ lines_to_write = NoLines
    /\ idx = 0
    /\ cnow = NoClock
    /\ listed = {}
    /\ todo = {}
    /\ attempted = {}
    /\ raisedIn = ""
    /\ events = <<>>
    /\ lastCreate = NoCreate
    /\ mkdirs = <<>>

NameProbe ==
    /\ probe.stage = "in"
    /\ probe' = [probe EXCEPT !.stage = "named", !.name = MonthFolderName(probe.now)]
    /\ UNCHANGED <<clock, pathKind, fsVars, pc, run, rolled, mainLocals, cleanupLocals,
                   raisedIn, events, ghostVars>>

ParseProbe ==
    /\ probe.stage = "named"
    /\ probe' = [probe EXCEPT !.stage = "parsed", !.parsed = ParseFolderName(probe.name)]
    /\ UNCHANGED <<clock, pathKind, fsVars, pc, run, rolled, mainLocals, cleanupLocals,
                   raisedIn, events, ghostVars>>

NextRoundTrip == NameProbe \/ ParseProbe

SpecRoundTrip == InitRoundTrip /\ [][NextRoundTrip]_vars

\* ========================================================================
\* Properties
\* ========================================================================
\* The folder-name format as the specification words it, stated without the
\* parser of delete_old_monthly_folders: exactly one "_", a full English
\* month name before it (in any letter case, as strptime recognises it) and
\* an integer literal after it.
Underscores(s) == {i \in 1..Len(s) : s[i] = "_"}
MonthSegment(s) == SubSeq(s, 1, (CHOOSE i \in Underscores(s) : TRUE) - 1)
YearSegment(s) == SubSeq(s, (CHOOSE i \in Underscores(s) : TRUE) + 1, Len(s))
IsMonthName(seg) == \E m \in 1..12 : LowerStr(seg) = LowerStr(MonthNames[m])
MonthOfName(seg) == CHOOSE m \in 1..12 : LowerStr(seg) = LowerStr(MonthNames[m])

ReadsAsBucket(s) ==
    /\ Cardinality(Underscores(s)) = 1
    /\ IsMonthName(MonthSegment(s))
    /\ IntOk(YearSegment(s))

\* What a name reads as: whether it conforms, and the year and month if so.
ReadName(s) ==
    IF ReadsAsBucket(s)
    THEN [conforms |-> TRUE, year |-> IntVal(YearSegment(s)),
          month |-> MonthOfName(MonthSegment(s))]
    ELSE [conforms |-> FALSE, year |-> 0, month |-> 0]

\* ReadName of each known name, computed once.
ReadNameTable == [n \in KnownNames |-> ReadName(n)]
NameRead(s) == IF s \in KnownNames THEN ReadNameTable[s] ELSE ReadName(s)

NameConforms(s) == NameRead(s).conforms
NameYear(s) == NameRead(s).year

\* distance(parsedBucket, current(now)) of a conforming name.
NameDistance(s, now) ==
    (now.year - NameRead(s).year) * 12 + (now.month - NameRead(s).month)

\* The directories the cleanup found under logs/.
ListedDirs == listed \ plainFiles

HasEvent(op) == \E i \in 1..Len(events) : events[i].op = op
Attempted(folder_name) == folder_name \in attempted

March2025 == [year |-> 2025, month |-> 3]
ReadIn(now, bucket) == now.year = bucket.year /\ now.month = bucket.month

\* The kinds of configured path that os.listdir cannot list.
Unlistable == {"absent", "denied", "notdir"}

\* The clock is in the calendar month of the last call of
\* create_monthly_folder that returned.
SameBucketAgain == lastCreate.ok /\ ReadIn(clock, lastCreate)

\* The place of a call in the order create folder, list paths, write
\* snapshot, cleanup, removals.
Rank(op) ==
    CASE op \in {"create_monthly_folder", "makedirs"} -> 1
      [] op = "list" -> 2
      [] op = "open" -> 3
      [] op = "delete_old_monthly_folders" -> 4
      [] op = "rmtree" -> 5

\* C1, as claimed: when a cleanup pass has returned, a directory it found
\* under logs/ is gone if and only if its name reads <MonthName>_<Year> and
\* its month lies 3 or more months before the month of the pass.
C1_DeletedIffParsesAndOld ==
    pc = "done" =>
        \A d \in ListedDirs :
            d \notin dirs <=> (NameConforms(d) /\ NameDistance(d, cnow) >= 3)

\* C1, amended: when a cleanup pass has returned, a directory it found under
\* logs/ is gone if and only if its name reads <MonthName>_<Year> with a
\* year from 1 to 9999 and its month lies 3 or more months before the month
\* of the pass; no other directory is removed at any point of a pass; in
\* March 2025 December_2024 is gone and January_2025 is kept.
C1_DeletedIffValidYearAndOld ==
    /\ pc = "done" =>
          \A d \in ListedDirs :
              d \notin dirs <=> /\ NameConforms(d)
                                /\ NameYear(d) \in 1..9999
                                /\ NameDistance(d, cnow) >= 3
    /\ \A d \in ListedDirs :
          d \notin dirs => /\ NameConforms(d)
                           /\ NameYear(d) \in 1..9999
                           /\ NameDistance(d, cnow) >= 3
    /\ (pc = "done" /\ ReadIn(cnow, March2025)) =>
          /\ December_2024 \in ListedDirs => December_2024 \notin dirs
          /\ January_2025 \in ListedDirs => January_2025 \in dirs

\* C1 witness: a pass of March 2025 has returned, December_2024 is gone,
\* January_2025 and the later December_2025 are kept.
C1_Witness ==
    /\ pc = "done"
    /\ ReadIn(cnow, March2025)
    /\ {December_2024, January_2025, December_2025} \subseteq ListedDirs
    /\ December_2024 \notin dirs
    /\ January_2025 \in dirs
    /\ December_2025 \in dirs

\* C2: no step removes a directory under logs/ whose name is non-conforming
\* (not exactly one "_", a year segment int() rejects, or a month segment
\* that is no full English month name).
C2_NonConformingNeverDeleted ==
    [][\A d \in dirs : ~NameConforms(d) => d \in dirs']_vars

\* C2 witness: a pass that removed a folder has returned and the folders
\* notamonth_name, March_25AB, Mar_2024, March_2024_old and March2024 that it
\* found are there.
C2_Witness ==
    /\ pc = "done"
    /\ HasEvent("rmtree")
    /\ {notamonth_name, March_25AB, Mar_2024, March_2024_old, March2024}
          \subseteq (ListedDirs \cap dirs)

\* C3, as claimed: a run that ended with a failure of the snapshot step (the
\* monthly folder could not be created, the snapshot file could not be
\* opened or written) has run delete_old_monthly_folders.
C3_CleanupRunsAfterSnapshotFailure ==
    (pc = "raised" /\ raisedIn \in {"makedirs", "open", "write"})
        => HasEvent("delete_old_monthly_folders")

\* C4, as claimed: when a cleanup pass has ended with a failed removal, the
\* removal of every expired directory found under logs/ has been attempted.
C4_EveryExpiredFolderAttempted ==
    (pc = "raised" /\ raisedIn = "rmtree") =>
        \A d \in ListedDirs :
            (/\ NameConforms(d)
             /\ NameYear(d) \in 1..9999
             /\ NameDistance(d, cnow) >= MONTHS_TO_KEEP) => Attempted(d)

\* C5, as claimed: a configured path that could not be listed (absent,
\* permission denied, not a directory) does not end the run in its listing
\* and has a section with empty sequences in the document of the run.
C5_UnlistablePathYieldsEmptySection ==
    \A i \in 1..Len(events) :
        (events[i].op = "list" /\ events[i].arg[2] \in Unlistable) =>
            /\ raisedIn # "listdir"
            /\ \E j \in 1..Len(lines_to_write.sections) :
                  /\ lines_to_write.sections[j].path = events[i].arg[1]
                  /\ lines_to_write.sections[j].subdirs = <<>>
                  /\ lines_to_write.sections[j].files = <<>>

\* C6, as claimed: no step changes a snapshot file that exists (its content
\* or the run that wrote it).
C6_SnapshotNeverOverwritten ==
    [][\A p \in DOMAIN snapshots :
          p \in DOMAIN snapshots' => snapshots'[p] = snapshots[p]]_vars

\* C7: a call of create_monthly_folder in the calendar month of an earlier
\* call that returned changes nothing on disk, does not raise and returns the
\* path the earlier call returned; os.makedirs creates no folder twice; the
\* path returned is logs/<MonthName>_<Year> and exists, with logs/.
C7_CreateMonthlyFolderIdempotent ==
    /\ [][(pc = "create" /\ pc' # "create" /\ SameBucketAgain) =>
              /\ pc' = "stamp"
              /\ fsVars' = fsVars
              /\ mkdirs' = mkdirs
              /\ monthly_folder' = lastCreate.path]_vars
    /\ [](\A i, j \in 1..Len(mkdirs) : mkdirs[i] = mkdirs[j] => i = j)
    /\ [](pc = "stamp" =>
              /\ rootExists
              /\ monthly_folder[2] \in dirs
              /\ monthly_folder =
                    <<"logs", FolderName(lastCreate.month, Dec(lastCreate.year))>>)

\* C7 witness: the second run's call has returned the folder that the first
\* run's call created, and os.makedirs ran once.
C7_Witness ==
    /\ pc = "stamp"
    /\ run = 2
    /\ mkdirs = <<monthly_folder[2]>>
    /\ monthly_folder = lastCreate.path

\* C8: the name create_monthly_folder gives to a year and a month is parsed
\* by the cleanup back to that year and that month.
C8_NameParseRoundTrip ==
    probe.stage = "parsed" =>
        probe.parsed = [ok |-> TRUE, year |-> probe.now.year,
                        month |-> probe.now.month]

\* C8 witness: the name of September 9999 has been parsed.
C8_Witness ==
    /\ probe.stage = "parsed"
    /\ probe.now.year = 9999
    /\ probe.now.month = 9
    /\ probe.parsed.ok

\* C9, as claimed: the calls of a run come in the order create folder, list
\* paths, write snapshot, cleanup, removals; no folder is removed before the
\* write was attempted; and a run in which a configured path could not be
\* listed, and whose write did not fail, has run the cleanup when it ends.
C9_CleanupAfterWriteDespiteListingFailure ==
    /\ \A i, j \in 1..Len(events) :
          i < j => Rank(events[i].op) <= Rank(events[j].op)
    /\ \A i \in 1..Len(events) :
          events[i].op = "rmtree" => \E j \in 1..(i - 1) : events[j].op = "open"
    /\ (/\ pc \in {"done", "raised"}
        /\ raisedIn \notin {"open", "write"}
        /\ \E i \in 1..Len(events) :
              events[i].op = "list" /\ events[i].arg[2] \in Unlistable)
          => HasEvent("delete_old_monthly_folders")

\* C10: when a run has returned, the folder its create_monthly_folder
\* returned and the snapshot file it wrote exist, also when a month boundary
\* was crossed before the cleanup read the clock.
C10_RunKeepsItsFolderAndSnapshot ==
    pc = "done" =>
        /\ monthly_folder[2] \in dirs
        /\ daily_log_path \in DOMAIN snapshots
        /\ snapshots[daily_log_path].writer = run
        /\ snapshots[daily_log_path].content = lines_to_write

\* C10 witness: a run has returned whose cleanup read the clock in the month
\* after the one its folder is named for, and removed a folder.
C10_Witness ==
    /\ pc = "done"
    /\ rolled >= 1
    /\ ~ReadIn(cnow, lastCreate)
    /\ HasEvent("rmtree")
    /\ monthly_folder[2] \in dirs

====
